---- MODULE Spec2Model ----
(***************************************************************************)
(* Model of the storyteller multi-agent session of src/main.py (the same   *)
(* agents are packaged again in src/src/agents/).  A session holds one     *)
(* StoryData record, one active agent and a chat history; the driving      *)
(* language model invokes the agents' function tools one at a time.        *)
(*                                                                         *)
(* The Session Host (livekit AgentSession) is the environment: it adds     *)
(* conversation turns, runs on_enter of an agent that became active,       *)
(* activates the agent a tool returns, and completes or fails the awaited  *)
(* generate_reply / delete_room requests.                                  *)
(***************************************************************************)
EXTENDS Integers, Sequences, FiniteSets, TLC

\* ---------------------------------------------------------------- bounds
MaxCharacters == 2
MaxLocations == 2
MaxTurns == 2

\* ------------------------------------------------- inputs of the tools
None == "<None>"
CharacterArgs == {<<"Aria", "orphaned blacksmith">>, <<"Bo", "sailor">>}
LocationNames == {"Port Callow", "Nil"}
Themes == {"redemption", "loss"}
Turns == {"user", "assistant"}
Specialties == {"children's books", "novels"}
\* environment of one web_search call
KeySettings == {"unset", "empty", "set"}
StatusCodes == {200, 500}
ResultCounts == {0, 6}

\* -------------------------------------------------------------- state
VARIABLES
    heap,               \* the StoryData objects allocated so far (by index)
    userdata,           \* session.userdata: index of the StoryData the tools get
    activeAgents,       \* the agents the session currently runs
    session_chat_ctx,   \* session._chat_ctx: the turns of the conversation
    entering,           \* on_enter of the active agent has not run yet
    pc,                 \* position of the story_finished coroutine
    handler,            \* name of the handler invoked last
    request,            \* what that invocation found: key and HTTP reply
    calls,              \* host calls issued by that invocation, in order
    surfaced,           \* failures that invocation surfaced to the host
    ret,                \* what that invocation returned
    finalReply,         \* state of the final reply of story_finished
    roomDeleted,        \* the room has been torn down
    charCalls,          \* history: arguments of character_introduction calls
    locCalls,           \* history: arguments of location_introduction calls
    lastThemeArg,       \* history: argument of the last theme_introduction
    handoffs            \* history: number of handoffs performed

vars == <<heap, userdata, activeAgents, session_chat_ctx, entering, pc,
          handler, request, calls, surfaced, ret, finalReply, roomDeleted,
          charCalls, locCalls, lastThemeArg, handoffs>>

storyVars == <<heap, userdata, charCalls, locCalls, lastThemeArg>>
historyVars == <<handoffs>>

\* ---------------------------------------------------------- data model
CharacterData(name, background) == [name |-> name, background |-> background]

StoryData == [characters |-> <<>>, locations |-> <<>>, theme |-> None]

\* variant: the new character is put in front
characters_append_front(sd, character) ==
    [sd EXCEPT !.characters = <<character>> \o @]

characters_append(sd, character) ==
    [sd EXCEPT !.characters = Append(@, character)]

locations_append(sd, location) ==
    [sd EXCEPT !.locations = Append(@, location)]

\* variant: the theme is also recorded as a location
set_theme_as_location(sd, theme) ==
    [sd EXCEPT !.theme = theme, !.locations = Append(@, theme)]

set_theme(sd, theme) ==
    [sd EXCEPT !.theme = theme]

\* context.userdata: the record the session's reference designates
context_userdata == heap[userdata]

\* ------------------------------------------------------------- agents
LeadEditorAgent ==
    [role |-> "LeadEditorAgent", specialty |-> None, chat_ctx |-> <<>>]

\* variant: the constructor drops the chat_ctx it is given
SpecialistEditorAgent_fresh(specialty, chat_ctx) ==
    [role |-> "SpecialistEditorAgent", specialty |-> specialty,
     chat_ctx |-> <<>>]

SpecialistEditorAgent(specialty, chat_ctx) ==
    [role |-> "SpecialistEditorAgent", specialty |-> specialty,
     chat_ctx |-> chat_ctx]

StoryTools ==
    {"character_introduction", "location_introduction", "theme_introduction"}

\* variant: every agent class declares every tool
AllTools(role) ==
    StoryTools \cup {"web_search", "detected_childrens_book",
                     "detected_novel", "story_finished"}

\* the @function_tool methods each agent class declares
Tools(role) ==
    IF role = "LeadEditorAgent"
    THEN StoryTools \cup {"web_search", "detected_childrens_book",
                          "detected_novel"}
    ELSE StoryTools \cup {"web_search", "story_finished"}

\* the host can dispatch tool `t` of agent `a` now
CanCall(a, t) ==
    /\ a \in activeAgents
    /\ t \in Tools(a.role)
    /\ ~entering
    /\ pc = "idle"
    /\ ~roomDeleted

\* what a handler hands back to the host
NoReturn == [kind |-> "none"]

\* bookkeeping of one handler invocation
NoRequest == [key |-> None, http |-> None, status |-> 0, body |-> 0]

Invoke(t, hostCalls, failures, result, reply) ==
    /\ handler' = t
    /\ request' = NoRequest
    /\ calls' = hostCalls
    /\ surfaced' = failures
    /\ ret' = result
    /\ finalReply' = reply

\* ------------------------------------------------ host calls (opaque)
GenerateReply(instructions, allow_interruptions) ==
    [op |-> "generate_reply", instructions |-> instructions,
     allow_interruptions |-> allow_interruptions]

Interrupt == [op |-> "interrupt", instructions |-> None,
              allow_interruptions |-> TRUE]

DeleteRoom == [op |-> "delete_room", instructions |-> None,
               allow_interruptions |-> TRUE]

FeedbackInstructions == "give brief but honest feedback on the story idea"

\* ---------------------------------------------------------- on_enter
\* variant: on_enter asks for the reply twice
on_enter_twice ==
    /\ entering
    /\ ~roomDeleted
    /\ entering' = FALSE
    /\ Invoke("on_enter",
              <<GenerateReply(None, TRUE), GenerateReply(None, TRUE)>>,
              <<>>, NoReturn, "none")
    /\ UNCHANGED <<activeAgents, session_chat_ctx, pc,
                   roomDeleted>>
    /\ UNCHANGED storyVars
    /\ UNCHANGED historyVars

\* LeadEditorAgent.on_enter / SpecialistEditorAgent.on_enter
on_enter ==
    /\ entering
    /\ ~roomDeleted
    /\ entering' = FALSE
    /\ Invoke("on_enter", <<GenerateReply(None, TRUE)>>, <<>>, NoReturn,
              "none")
    /\ UNCHANGED <<activeAgents, session_chat_ctx, pc,
                   roomDeleted>>
    /\ UNCHANGED storyVars
    /\ UNCHANGED historyVars

\* the host records a turn of the conversation in the session history and
\* in the history of the agent that is running
HostTurn(turn) ==
    /\ ~entering
    /\ pc = "idle"
    /\ ~roomDeleted
    /\ Len(session_chat_ctx) < MaxTurns
    /\ session_chat_ctx' = Append(session_chat_ctx, turn)
    /\ activeAgents' =
         {[a EXCEPT !.chat_ctx = Append(@, turn)] : a \in activeAgents}
    /\ UNCHANGED <<entering, pc, handler, request, calls, surfaced, ret,
                   finalReply, roomDeleted>>
    /\ UNCHANGED storyVars
    /\ UNCHANGED historyVars

\* ------------------------------------------------------- story tools
character_introduction(a, name, background) ==
    /\ CanCall(a, "character_introduction")
    /\ Len(context_userdata.characters) < MaxCharacters
    /\ heap' = [heap EXCEPT ![userdata] =
                  characters_append(@, CharacterData(name, background))]
    /\ charCalls' = Append(charCalls, <<name, background>>)
    /\ Invoke("character_introduction", <<>>, <<>>, NoReturn, "none")
    /\ UNCHANGED <<userdata, locCalls, lastThemeArg, activeAgents,
                   session_chat_ctx, entering, pc, roomDeleted>>
    /\ UNCHANGED historyVars

location_introduction(a, location) ==
    /\ CanCall(a, "location_introduction")
    /\ Len(context_userdata.locations) < MaxLocations
    /\ heap' = [heap EXCEPT ![userdata] = locations_append(@, location)]
    /\ locCalls' = Append(locCalls, location)
    /\ Invoke("location_introduction", <<>>, <<>>, NoReturn, "none")
    /\ UNCHANGED <<userdata, charCalls, lastThemeArg, activeAgents,
                   session_chat_ctx, entering, pc, roomDeleted>>
    /\ UNCHANGED historyVars

theme_introduction(a, theme) ==
    /\ CanCall(a, "theme_introduction")
    /\ heap' = [heap EXCEPT ![userdata] = set_theme(@, theme)]
    /\ lastThemeArg' = theme
    /\ Invoke("theme_introduction", <<>>, <<>>, NoReturn, "none")
    /\ UNCHANGED <<userdata, charCalls, locCalls, activeAgents,
                   session_chat_ctx, entering, pc, roomDeleted>>
    /\ UNCHANGED historyVars

\* -------------------------------------------------------- web_search
BadJson == 0 - 1
Bodies == ResultCounts \cup {BadJson}

\* what client.get can do: time out, fail to connect, or answer with a
\* status and a body
HttpReplies ==
    {<<"timeout", 0, 0>>, <<"connect_error", 0, 0>>}
    \cup {<<"response", s, BadJson>> : s \in StatusCodes \ {200}}
    \cup {<<"response", 200, b>> : b \in Bodies}

\* without a key web_search sends no request
RepliesFor(key) ==
    IF key = "set" THEN HttpReplies ELSE {<<"not_sent", 0, 0>>}

Exc(type, kind, status, cause, causeStatus) ==
    [type |-> type, kind |-> kind, status |-> status, cause |-> cause,
     causeStatus |-> causeStatus]

Raise(e) == [raised |-> TRUE, exc |-> e, value |-> NoReturn]
Return(v) == [raised |-> FALSE, exc |-> Exc(None, None, 0, None, 0),
              value |-> v]

Min(x, y) == IF x < y THEN x ELSE y

\* the statements inside `try:` of web_search, up to the first raise/return
web_search_try(key, http, status, body) ==
    IF key \in {"unset", "empty"}
    THEN Raise(Exc("ToolError", "missing_credential", 0, None, 0))
    ELSE IF http = "timeout"
    THEN Raise(Exc("TimeoutException", "timeout", 0, None, 0))
    ELSE IF http = "connect_error"
    THEN Raise(Exc("ConnectError", "connect_error", 0, None, 0))
    ELSE IF status # 200
    THEN Raise(Exc("ToolError", "upstream_status", status, None, 0))
    ELSE IF body = BadJson
    THEN Raise(Exc("JSONDecodeError", "bad_json", 0, None, 0))
    ELSE IF body = 0
    THEN Return([kind |-> "no_results", entries |-> 0])
    ELSE Return([kind |-> "summary", entries |-> Min(body, 5)])

\* the `except` clauses of web_search: the first clause whose class matches
\* the exception raised in the try body handles it; ToolError is an
\* Exception, so `except Exception` handles it as well
web_search_except(r) ==
    IF ~r.raised
    THEN r
    ELSE IF r.exc.type = "TimeoutException"
    THEN Raise(Exc("ToolError", "timeout", 0, None, 0))
    ELSE Raise(Exc("ToolError", "unexpected", 0, r.exc.kind, r.exc.status))

web_search_result(key, http, status, body) ==
    web_search_except(web_search_try(key, http, status, body))

\* variant: the wrapped exception reaches the host next to its wrapper
web_search_twice(a, key, http, status, body) ==
    LET r == web_search_result(key, http, status, body) IN
    /\ CanCall(a, "web_search")
    /\ handler' = "web_search"
    /\ request' = [key |-> key, http |-> http, status |-> status,
                   body |-> body]
    /\ calls' = <<>>
    /\ surfaced' = IF r.raised
                   THEN <<web_search_try(key, http, status, body).exc, r.exc>>
                   ELSE <<>>
    /\ ret' = r.value
    /\ finalReply' = "none"
    /\ UNCHANGED <<activeAgents, session_chat_ctx, entering, pc, roomDeleted>>
    /\ UNCHANGED storyVars
    /\ UNCHANGED historyVars

\* LeadEditorAgent.web_search / SpecialistEditorAgent.web_search
web_search(a, key, http, status, body) ==
    LET r == web_search_result(key, http, status, body) IN
    /\ CanCall(a, "web_search")
    /\ handler' = "web_search"
    /\ request' = [key |-> key, http |-> http, status |-> status,
                   body |-> body]
    /\ calls' = <<>>
    /\ surfaced' = IF r.raised THEN <<r.exc>> ELSE <<>>
    /\ ret' = r.value
    /\ finalReply' = "none"
    /\ UNCHANGED <<activeAgents, session_chat_ctx, entering, pc, roomDeleted>>
    /\ UNCHANGED storyVars
    /\ UNCHANGED historyVars

\* ------------------------------------------------------------ handoff
Announcement == "Let's switch to the children's book editor."

\* variant: the handoff gives the session a fresh StoryData
Handoff_resetting(a, tool, specialty) ==
    LET new == SpecialistEditorAgent(specialty, session_chat_ctx) IN
    /\ CanCall(a, tool)
    /\ Invoke(tool, <<>>, <<>>,
              [kind |-> "handoff", agent |-> new,
               announcement |-> Announcement], "none")
    /\ activeAgents' = {new}
    /\ entering' = TRUE
    /\ handoffs' = handoffs + 1
    /\ heap' = Append(heap, StoryData)
    /\ userdata' = Len(heap) + 1
    /\ UNCHANGED <<session_chat_ctx, pc, roomDeleted,
                   charCalls, locCalls, lastThemeArg>>

\* variant: the Lead stays active next to the Specialist
Handoff_keeping(a, tool, specialty) ==
    LET new == SpecialistEditorAgent(specialty, session_chat_ctx) IN
    /\ CanCall(a, tool)
    /\ Invoke(tool, <<>>, <<>>,
              [kind |-> "handoff", agent |-> new,
               announcement |-> Announcement], "none")
    /\ activeAgents' = activeAgents \cup {new}
    /\ entering' = TRUE
    /\ handoffs' = handoffs + 1
    /\ UNCHANGED <<session_chat_ctx, pc, roomDeleted>>
    /\ UNCHANGED storyVars

\* detected_childrens_book / detected_novel: construct the specialist on the
\* session's chat history and return it with the announcement; the host
\* makes the returned agent the session's agent
Handoff(a, tool, specialty) ==
    LET new == SpecialistEditorAgent(specialty, session_chat_ctx) IN
    /\ CanCall(a, tool)
    /\ Invoke(tool, <<>>, <<>>,
              [kind |-> "handoff", agent |-> new,
               announcement |-> Announcement], "none")
    /\ activeAgents' = {new}
    /\ entering' = TRUE
    /\ handoffs' = handoffs + 1
    /\ UNCHANGED <<session_chat_ctx, pc, roomDeleted>>
    /\ UNCHANGED storyVars

detected_childrens_book(a) ==
    Handoff(a, "detected_childrens_book", "children's books")

\* variant: the novel handoff constructs the children's book specialist
detected_novel_childrens(a) ==
    Handoff(a, "detected_novel", "children's books")

detected_novel(a) ==
    Handoff(a, "detected_novel", "novels")

\* ----------------------------------------------------- story_finished
\* variant: delete_room is called without awaiting the final reply
story_finished_no_await(a) ==
    /\ CanCall(a, "story_finished")
    /\ Invoke("story_finished",
              <<Interrupt, GenerateReply(FeedbackInstructions, FALSE),
                DeleteRoom>>,
              <<>>, NoReturn, "pending")
    /\ pc' = "await_delete"
    /\ UNCHANGED <<activeAgents, session_chat_ctx, entering, roomDeleted>>
    /\ UNCHANGED storyVars
    /\ UNCHANGED historyVars

\* variant: the final reply is requested before the interrupt
story_finished_interrupt_last(a) ==
    /\ CanCall(a, "story_finished")
    /\ Invoke("story_finished",
              <<GenerateReply(FeedbackInstructions, FALSE), Interrupt>>,
              <<>>, NoReturn, "pending")
    /\ pc' = "await_reply"
    /\ UNCHANGED <<activeAgents, session_chat_ctx, entering, roomDeleted>>
    /\ UNCHANGED storyVars
    /\ UNCHANGED historyVars

\* story_finished up to its first await: interrupt, request the final reply
story_finished(a) ==
    /\ CanCall(a, "story_finished")
    /\ Invoke("story_finished",
              <<Interrupt, GenerateReply(FeedbackInstructions, FALSE)>>,
              <<>>, NoReturn, "pending")
    /\ pc' = "await_reply"
    /\ UNCHANGED <<activeAgents, session_chat_ctx, entering, roomDeleted>>
    /\ UNCHANGED storyVars
    /\ UNCHANGED historyVars

\* the awaited final reply completed: story_finished goes on to delete_room
story_finished_reply_completed ==
    /\ pc = "await_reply"
    /\ finalReply' = "completed"
    /\ calls' = Append(calls, DeleteRoom)
    /\ pc' = "await_delete"
    /\ UNCHANGED <<activeAgents, session_chat_ctx, entering, handler,
                   request, surfaced, ret, roomDeleted>>
    /\ UNCHANGED storyVars
    /\ UNCHANGED historyVars

ReplyFailure == Exc("RuntimeError", "generate_reply_failed", 0, None, 0)
DeleteFailure == Exc("TwirpError", "delete_room_failed", 0, None, 0)

\* variant: delete_room is called in a finally clause
story_finished_reply_failed_cleanup ==
    /\ pc = "await_reply"
    /\ finalReply' = "failed"
    /\ calls' = Append(calls, DeleteRoom)
    /\ surfaced' = <<ReplyFailure>>
    /\ pc' = "idle"
    /\ UNCHANGED <<activeAgents, session_chat_ctx, entering, handler,
                   request, ret, roomDeleted>>
    /\ UNCHANGED storyVars
    /\ UNCHANGED historyVars

\* the awaited final reply raised: the exception leaves story_finished
story_finished_reply_failed ==
    /\ pc = "await_reply"
    /\ finalReply' = "failed"
    /\ surfaced' = <<ReplyFailure>>
    /\ pc' = "idle"
    /\ UNCHANGED <<activeAgents, session_chat_ctx, entering, handler,
                   request, calls, ret, roomDeleted>>
    /\ UNCHANGED storyVars
    /\ UNCHANGED historyVars

\* the awaited delete_room completed: the room is gone, the session ends
delete_room_completed ==
    /\ pc = "await_delete"
    /\ roomDeleted' = TRUE
    /\ pc' = "done"
    /\ UNCHANGED <<activeAgents, session_chat_ctx, entering, handler,
                   request, calls, surfaced, ret, finalReply>>
    /\ UNCHANGED storyVars
    /\ UNCHANGED historyVars

\* the awaited delete_room raised: the exception leaves story_finished
delete_room_failed ==
    /\ pc = "await_delete"
    /\ surfaced' = <<DeleteFailure>>
    /\ pc' = "idle"
    /\ UNCHANGED <<activeAgents, session_chat_ctx, entering, handler,
                   request, calls, ret, finalReply, roomDeleted>>
    /\ UNCHANGED storyVars
    /\ UNCHANGED historyVars

\* ------------------------------------------------------ specification
\* entrypoint: AgentSession(userdata=StoryData()), session.start(agent=
\* LeadEditorAgent())
Init ==
    /\ heap = <<StoryData>>
    /\ userdata = 1
    /\ activeAgents = {LeadEditorAgent}
    /\ session_chat_ctx = <<>>
    /\ entering = TRUE
    /\ pc = "idle"
    /\ handler = None
    /\ request = NoRequest
    /\ calls = <<>>
    /\ surfaced = <<>>
    /\ ret = NoReturn
    /\ finalReply = "none"
    /\ roomDeleted = FALSE
    /\ charCalls = <<>>
    /\ locCalls = <<>>
    /\ lastThemeArg = None
    /\ handoffs = 0

Next ==
    \/ on_enter
    \/ \E t \in Turns : HostTurn(t)
    \/ \E a \in activeAgents, c \in CharacterArgs :
          character_introduction(a, c[1], c[2])
    \/ \E a \in activeAgents, l \in LocationNames :
          location_introduction(a, l)
    \/ \E a \in activeAgents, t \in Themes : theme_introduction(a, t)
    \/ \E a \in activeAgents, k \in KeySettings :
          \E r \in RepliesFor(k) : web_search(a, k, r[1], r[2], r[3])
    \/ \E a \in activeAgents : detected_childrens_book(a)
    \/ \E a \in activeAgents : detected_novel(a)
    \/ \E a \in activeAgents : story_finished(a)
    \/ story_finished_reply_completed
    \/ story_finished_reply_failed
    \/ delete_room_completed
    \/ delete_room_failed

Spec == Init /\ [][Next]_vars

\* ------------------------------------------------------------ helpers
Range(q) == {q[i] : i \in 1..Len(q)}

IsPrefix(p, q) == Len(p) <= Len(q) /\ SubSeq(q, 1, Len(p)) = p

Count(q, op) == Cardinality({i \in 1..Len(q) : q[i].op = op})

IndexOf(q, op) == CHOOSE i \in 1..Len(q) : q[i].op = op

ActiveIds == {<<a.role, a.specialty>> : a \in activeAgents}

SpecialistIds == {<<"SpecialistEditorAgent", sp>> : sp \in Specialties}

LeadId == <<"LeadEditorAgent", None>>

HandoffTools == {"detected_childrens_book", "detected_novel"}

\* ---------------------------------------------------------- properties

\* C1: starting from an empty StoryData, characters is the sequence of
\* (name, background) pairs passed to character_introduction in call order,
\* locations is the sequence of strings passed to location_introduction in
\* call order, and theme is the argument of the latest theme_introduction
\* (unset when there was none), whichever agent made the calls.
C1_StoryAccumulatesCalls ==
    /\ context_userdata.characters =
         [i \in 1..Len(charCalls) |->
            CharacterData(charCalls[i][1], charCalls[i][2])]
    /\ context_userdata.locations = locCalls
    /\ context_userdata.theme = lastThemeArg

C1_Witness ==
    /\ handoffs = 1
    /\ handler = "character_introduction"
    /\ Len(charCalls) = 2
    /\ charCalls[1] # charCalls[2]
    /\ Len(locCalls) = 2
    /\ locCalls[1] # locCalls[2]
    /\ lastThemeArg # None

\* C2: in a handoff step the history of the newly constructed Specialist
\* equals the history the Lead Editor held right before the step: same
\* turns, same order, none lost, none duplicated.
C2_HandoffKeepsHistory ==
    [][handoffs' = handoffs + 1 =>
         \A old \in activeAgents :
            \A new \in activeAgents' :
               new.role = "SpecialistEditorAgent" =>
                  new.chat_ctx = old.chat_ctx]_vars

C2_Witness ==
    /\ handler \in HandoffTools
    /\ \E a \in activeAgents :
          /\ a.role = "SpecialistEditorAgent"
          /\ Len(a.chat_ctx) = 2
          /\ a.chat_ctx[1] # a.chat_ctx[2]

\* C3: the session has one StoryData for its whole life: no step allocates
\* another or redirects the session's reference, the handoff step leaves
\* the record as it is, and afterwards nothing written earlier is lost
\* (characters and locations only grow at the end, theme changes only by
\* theme_introduction), so the Specialist's tools work on what the Lead
\* wrote.
C3_OneStoryDataForLife ==
    /\ Len(heap) = 1
    /\ userdata = 1
    /\ [][/\ Len(heap') = 1
          /\ userdata' = userdata
          /\ IsPrefix(heap[userdata].characters, heap'[userdata'].characters)
          /\ IsPrefix(heap[userdata].locations, heap'[userdata'].locations)
          /\ heap'[userdata'].theme # heap[userdata].theme =>
                handler' = "theme_introduction"
          /\ handoffs' # handoffs => heap' = heap]_vars

C3_Witness ==
    /\ handler \in HandoffTools
    /\ ActiveIds \subseteq SpecialistIds
    /\ Len(context_userdata.characters) = 2
    /\ Len(context_userdata.locations) >= 1
    /\ context_userdata.theme # None

\* C4: delete_room is issued only by a story_finished whose final reply has
\* completed: whenever the deletion was issued, the final reply of that
\* invocation was requested before it and is neither pending nor failed.
C4_DeleteAfterFinalReply ==
    (DeleteRoom \in Range(calls) \/ roomDeleted \/ pc \in {"await_delete", "done"})
        => /\ finalReply = "completed"
           /\ Count(calls, "generate_reply") = 1
           /\ Count(calls, "delete_room") = 1
           /\ IndexOf(calls, "generate_reply") < IndexOf(calls, "delete_room")

C4_Witness ==
    /\ pc = "await_delete"
    /\ DeleteRoom \in Range(calls)
    /\ ~roomDeleted

\* C5: the failure web_search surfaces is of the kind of its cause: no key
\* gives the missing-credential failure, a status other than 200 gives the
\* upstream-status failure with that status, a timeout gives the timeout
\* failure, and only another exception gives the unexpected failure.
C5_FailureKindMatchesCause ==
    handler = "web_search" =>
        /\ request.key # "set" =>
              /\ Len(surfaced) = 1
              /\ surfaced[1].kind = "missing_credential"
        /\ (request.key = "set" /\ request.http = "response"
              /\ request.status # 200) =>
              /\ Len(surfaced) = 1
              /\ surfaced[1].kind = "upstream_status"
              /\ surfaced[1].status = request.status
        /\ (request.key = "set" /\ request.http = "timeout") =>
              /\ Len(surfaced) = 1
              /\ surfaced[1].kind = "timeout"
        /\ \A i \in 1..Len(surfaced) :
              surfaced[i].kind = "unexpected" =>
                 /\ request.key = "set"
                 /\ \/ request.http = "connect_error"
                    \/ /\ request.http = "response"
                       /\ request.status = 200
                       /\ request.body = BadJson

\* C6: a step in which a tool call fails surfaces exactly one failure and
\* leaves the active agent and the StoryData as they were, with the room
\* not deleted.
C6_FailureIsLocal ==
    [][(/\ surfaced' # <<>>
        /\ <<handler, request, surfaced, pc>>' # <<handler, request, surfaced, pc>>)
         => /\ Len(surfaced') = 1
            /\ activeAgents' = activeAgents
            /\ heap' = heap
            /\ userdata' = userdata
            /\ roomDeleted' = FALSE
            /\ handoffs' = handoffs]_vars

C6_Witness ==
    /\ handler = "web_search"
    /\ request.key = "unset"
    /\ Len(surfaced) = 1
    /\ Len(context_userdata.characters) = 2
    /\ context_userdata.theme # None
    /\ ~roomDeleted

\* C7: the active agent changes only by a handoff tool of the Lead Editor,
\* from the Lead to a Specialist: a Specialist is never replaced, so a
\* session has at most one handoff.
C7_OneWayFunnel ==
    [][/\ ActiveIds' # ActiveIds =>
             /\ ActiveIds = {LeadId}
             /\ ActiveIds' \subseteq SpecialistIds
             /\ handler' \in HandoffTools
             /\ handoffs' = handoffs + 1
       /\ handoffs' <= 1]_vars

C7_Witness ==
    /\ ActiveIds \subseteq SpecialistIds
    /\ handoffs = 1
    /\ handler = "theme_introduction"
    /\ Len(session_chat_ctx) = MaxTurns

\* C8: the room deletion is issued only while a Specialist Editor is the
\* active agent, after a handoff and by a story_finished call.
C8_TerminationFromSpecialist ==
    (roomDeleted \/ DeleteRoom \in Range(calls))
        => /\ ActiveIds # {}
           /\ ActiveIds \subseteq SpecialistIds
           /\ handoffs >= 1
           /\ handler = "story_finished"

C8_Witness ==
    /\ roomDeleted
    /\ pc = "done"

\* C9: when the final reply of story_finished fails, story_finished ends
\* with that failure, having requested the final reply once and issued no
\* delete_room; the room is not deleted.
C9_FailedReplySkipsTeardown ==
    (handler = "story_finished" /\ finalReply = "failed")
        => /\ pc = "idle"
           /\ surfaced = <<ReplyFailure>>
           /\ Count(calls, "generate_reply") = 1
           /\ Count(calls, "delete_room") = 0
           /\ ~roomDeleted

C9_Witness ==
    /\ handler = "story_finished"
    /\ finalReply = "failed"
    /\ surfaced = <<ReplyFailure>>

\* C10: exactly one agent is active in every state: the Lead Editor until
\* the handoff, the returned Specialist Editor from the handoff on.
C10_ExactlyOneActiveAgent ==
    /\ Cardinality(activeAgents) = 1
    /\ handoffs = 0 => ActiveIds = {LeadId}
    /\ handoffs >= 1 => ActiveIds \subseteq SpecialistIds

C10_Witness ==
    /\ handoffs = 1
    /\ Cardinality(activeAgents) = 1
    /\ ActiveIds \subseteq SpecialistIds
    /\ ~entering

\* a step that invokes tool t or continues its invocation
StepOf(t) ==
    /\ handler' = t
    /\ \/ handler # t
       \/ <<request, calls, surfaced, ret, finalReply, pc, charCalls,
            locCalls, lastThemeArg, handoffs>>'
            # <<request, calls, surfaced, ret, finalReply, pc, charCalls,
                locCalls, lastThemeArg, handoffs>>

SpecialtyOf(tool) ==
    IF tool = "detected_novel" THEN "novels" ELSE "children's books"

C12_OnEnterOnlyRequestsReply ==
    /\ entering = TRUE
    /\ [][/\ ActiveIds' # ActiveIds => entering'
          /\ (entering /\ ~entering') =>
                /\ handler' = "on_enter"
                /\ calls' = <<GenerateReply(None, TRUE)>>
                /\ surfaced' = <<>>
                /\ heap' = heap
                /\ userdata' = userdata
                /\ activeAgents' = activeAgents
                /\ handoffs' = handoffs
                /\ pc' = pc
                /\ roomDeleted' = FALSE]_vars

C12_Witness ==
    /\ handler = "on_enter"
    /\ ActiveIds \subseteq SpecialistIds
    /\ calls = <<GenerateReply(None, TRUE)>>
    /\ Len(context_userdata.characters) >= 1
    /\ ~entering

\* C13: story_finished first interrupts and then requests its final reply,
\* once, with allow_interruptions = FALSE: no interrupt of the invocation
\* comes after the request.
C13_InterruptBeforeFinalReply ==
    handler = "story_finished" =>
        /\ Len(calls) >= 2
        /\ calls[1] = Interrupt
        /\ calls[2] = GenerateReply(FeedbackInstructions, FALSE)
        /\ Count(calls, "interrupt") = 1
        /\ Count(calls, "generate_reply") = 1
        /\ \A i \in 1..Len(calls) :
              calls[i].op = "generate_reply" => ~calls[i].allow_interruptions

C13_Witness ==
    /\ handler = "story_finished"
    /\ pc = "await_reply"
    /\ finalReply = "pending"
    /\ Len(calls) = 2

\* C14: each tool changes its own part only: character_introduction leaves
\* locations and theme, location_introduction leaves characters and theme,
\* theme_introduction leaves characters and locations; none of the three
\* changes the active agent or a history; the handoff tools, web_search and
\* story_finished leave the StoryData as it was.
C14_ToolFrames ==
    [][/\ StepOf("character_introduction") =>
             /\ heap'[userdata'].locations = heap[userdata].locations
             /\ heap'[userdata'].theme = heap[userdata].theme
       /\ StepOf("location_introduction") =>
             /\ heap'[userdata'].characters = heap[userdata].characters
             /\ heap'[userdata'].theme = heap[userdata].theme
       /\ StepOf("theme_introduction") =>
             /\ heap'[userdata'].characters = heap[userdata].characters
             /\ heap'[userdata'].locations = heap[userdata].locations
       /\ (\E t \in StoryTools : StepOf(t)) =>
             /\ activeAgents' = activeAgents
             /\ session_chat_ctx' = session_chat_ctx
       /\ (\E t \in HandoffTools \cup {"web_search", "story_finished"} :
              StepOf(t)) =>
             /\ heap' = heap
             /\ userdata' = userdata]_vars

C14_Witness ==
    /\ handler = "theme_introduction"
    /\ ActiveIds \subseteq SpecialistIds
    /\ context_userdata.theme # None
    /\ Len(context_userdata.characters) = 2
    /\ Len(context_userdata.locations) = 2
    /\ Len(session_chat_ctx) = 2
====
